---- MODULE Spec2Model ----
(***************************************************************************)
(* Model of the Battle-Report scraper's instance tracker                   *)
(* (src/modules/battle_report_scraper.py, class InstanceTracker), of       *)
(* BattleReportScraper.process_card that drives it, and of the scan loop   *)
(* process_all_participants / process_current_screen.                      *)
(*                                                                         *)
(* Strings are sequences of one-character strings, so that str.strip()     *)
(* and str.lower() are computed and not assumed.  Optional[str] is a       *)
(* record [some, s]; None is [some |-> FALSE, s |-> <<>>].                 *)
(***************************************************************************)
EXTENDS Integers, Sequences, FiniteSets, TLC

VARIABLES
    seen,               \* InstanceTracker.seen: (hero_key, gametag_key) -> SeenCard
    gametags,           \* InstanceTracker.gametags
    max_y_processed,    \* InstanceTracker.max_y_processed
    min_y_seen,         \* InstanceTracker.min_y_seen
    last_processed_ts,  \* InstanceTracker.last_processed_ts: hero_key -> time
    now,                \* the value time.time() returns
    last,               \* history: the most recent state-changing tracker call
    markedAt,           \* history: per hero key, the most recent mark_processed call
    markedTags,         \* history: <<hero_name, gametag>> of the mark_processed calls
                        \*          since the last reset()
    calls,              \* history: number of calls made so far
    clicks,             \* history: clicks the driver made on each physical card
                        \*          since the session's reset()
    running,                  \* BattleReportScraper.running
    processed_positions,      \* BattleReportScraper.processed_positions
    processed_captain_names,  \* BattleReportScraper.processed_captain_names
    scan_pc,            \* where the capture thread stands
    dragon_found,       \* process_all_participants: dragon_found
    processed_screens,  \* process_all_participants: processed_screens
    no_progress_count,  \* process_all_participants: no_progress_count
    last_content_hash,  \* process_all_participants: last_content_hash
    screen,             \* process_all_participants: the screenshot of this iteration
    todo,               \* process_current_screen: the cards of all_cards still to come
    processed_count,    \* process_current_screen: processed_count
    frame_new,          \* history: cards newly processed in this frame (heroes
                        \*          clicked and marked, captains handled)
    ended_by,           \* history: how the capture thread left its work
    last_scroll,        \* history: the amount of the latest pyautogui.scroll
    captain_clicks,     \* history: clicks made on captain cards, per name in
                        \*          lower case, in this session
    wait_left,          \* capture_process: seconds of the initial wait to come
    search_i,           \* scroll_to_troops_marker: i
    marker_found,       \* history: scroll_to_troops_marker returned True
    start_time,         \* capture_process: start_time
    capture_elapsed_time,  \* BattleReportScraper.capture_elapsed_time
    finished_scheduled, \* history: root.after(0, self.capture_finished) calls
    nms_pc,             \* where a call of detection and suppression stands
    candidates,         \* the detections handed to a suppression pass
    survivors,          \* the detections it returned
    sc_pc,              \* where ScrollController.scroll_until_no_change stands
    content_hashes,     \* ScrollController.content_hashes
    screenshots,        \* scroll_until_no_change: screenshots
    no_change_count,    \* scroll_until_no_change: no_change_count
    position,           \* scroll_until_no_change: position
    callback_calls,     \* history: the (screenshot, position) pairs passed to callback
    seen_run            \* history: the latest captures in a row whose hash was
                        \*          in content_hashes already

trackerVars == <<seen, gametags, max_y_processed, min_y_seen, last_processed_ts>>
histVars == <<last, markedAt, markedTags, calls>>
sessionVars == <<wait_left, search_i, marker_found, start_time,
                 capture_elapsed_time, finished_scheduled>>
coreVars == <<nms_pc, candidates, survivors, sc_pc, content_hashes,
              screenshots, no_change_count, position, callback_calls, seen_run>>
scanVars == <<running, processed_positions, processed_captain_names, scan_pc,
              dragon_found, processed_screens, no_progress_count,
              last_content_hash, screen, todo, processed_count, frame_new,
              ended_by, last_scroll, captain_clicks, sessionVars>>
vars == <<seen, gametags, max_y_processed, min_y_seen, last_processed_ts,
          now, last, markedAt, markedTags, calls, clicks,
          running, processed_positions, processed_captain_names, scan_pc,
          dragon_found, processed_screens, no_progress_count,
          last_content_hash, screen, todo, processed_count, frame_new,
          ended_by, last_scroll, captain_clicks, wait_left, search_i,
          marker_found, start_time, capture_elapsed_time, finished_scheduled,
          nms_pc, candidates, survivors, sc_pc, content_hashes, screenshots,
          no_change_count, position, callback_calls, seen_run>>

----------------------------------------------------------------------------
(* Bounds of the model *)

MaxCalls == 2       \* state-changing tracker calls explored under Spec
MaxKeyCalls == 3    \* state-changing tracker calls explored under SpecKeys
MaxCards == 2       \* process_card and session-start steps explored under SpecDriver
MaxTicks == 3       \* clock advances explored
TimeStep == 25      \* seconds the clock advances in one Tick

(* Program constants *)

SAME_CARD_Y_TOLERANCE == 320
REPROCESS_COOLDOWN_S == 60
PROCESSED_LOCK_S == 45
NEEDS_SCROLL_GAP == 250
CLICK_SETTLE_S == 5
CARD_CENTER_OFFSET == 25
LOG_AREA_TOP == 441
LOG_AREA_LEFT == 490
CAPTAIN_SETTLE_S == 3
NO_PROGRESS_CAP == 10
SCREENS_CAP == 50
POSITION_GRID == 10
MARKER_MAX_SCROLLS == 60
MARKER_THRESHOLD == 75
WAIT_STEP_S == 1

----------------------------------------------------------------------------
(* Python values *)

None == [some |-> FALSE, s |-> <<>>]
Some(s) == [some |-> TRUE, s |-> s]

\* last_content_hash = None, a screenshot not taken, no amount scrolled yet
NoHash == <<>>
NoScreen == [cards |-> {}, variant |-> 0, dragon |-> FALSE]
NoScroll == 0

\* capture_elapsed_time before the first capture ends: the attribute is not set
NoElapsed == <<>>

\* truth value of an Optional[str]: None and "" are falsy
Truthy(g) == g.some /\ g.s # <<>>

LowerChar(c) ==
    CASE c = "H" -> "h"
      [] c = "G" -> "g"
      [] c = "X" -> "x"
      [] c = "Y" -> "y"
      [] OTHER -> c

str_lower(s) == [i \in 1..Len(s) |-> LowerChar(s[i])]

RECURSIVE str_lstrip(_)
str_lstrip(s) == IF s # <<>> /\ Head(s) = " " THEN str_lstrip(Tail(s)) ELSE s

RECURSIVE str_rstrip(_)
str_rstrip(s) ==
    IF s # <<>> /\ s[Len(s)] = " " THEN str_rstrip(SubSeq(s, 1, Len(s) - 1)) ELSE s

str_strip(s) == str_rstrip(str_lstrip(s))

Abs(n) == IF n < 0 THEN -n ELSE n
Min(a, b) == IF a < b THEN a ELSE b
Max(a, b) == IF a > b THEN a ELSE b

----------------------------------------------------------------------------
(* Inputs *)

\* hero names and labels as the driver passes them (Spec)
HeroNames == { <<"H", " ">>, <<"g">> }
Labels == { None, Some(<<" ">>), Some(<<"X">>), Some(<<"Y">>) }
Ys == { 100, 150, 420 }

\* spellings of one hero and of one label, against another hero and label (SpecKeys)
HeroSpellings == { <<"h">>, <<"H", " ">>, <<"g">> }
LabelSpellings == { Some(<<>>), Some(<<" ">>), Some(<<"X">>), Some(<<" ", "x">>),
                    Some(<<"Y">>) }
KeyYs == { 100, 420 }

----------------------------------------------------------------------------
(* InstanceTracker *)

UNKNOWN == None

SeenCard(hero_name, gametag, last_seen, y_center, processed) ==
    [hero_name |-> hero_name, gametag |-> gametag, last_seen |-> last_seen,
     y_center |-> y_center, processed |-> processed]

\* _hero_key without the strip()
_hero_key_no_strip(hero_name) == str_lower(hero_name)

_hero_key(hero_name) == str_lower(str_strip(hero_name))

\* _gametag_key without the lower()
_gametag_key_no_lower(gametag) ==
    IF Truthy(gametag) THEN Some(str_strip(gametag.s)) ELSE UNKNOWN

_gametag_key(gametag) ==
    IF Truthy(gametag) THEN Some(str_lower(str_strip(gametag.s))) ELSE UNKNOWN

\* _key by the hero alone
_key_by_hero(hero_name, gametag) == <<_hero_key(hero_name), UNKNOWN>>

_key(hero_name, gametag) == <<_hero_key(hero_name), _gametag_key(gametag)>>

\* add_detection refreshing every entry of the hero
add_detection_every_entry(hero_name, y_center, t) ==
    LET key == _key(hero_name, None) IN
    /\ min_y_seen' = Min(min_y_seen, y_center)
    /\ seen' = [k \in DOMAIN seen \cup {key} |->
                  IF k \notin DOMAIN seen
                  THEN SeenCard(hero_name, None, t, y_center, FALSE)
                  ELSE IF k[1] = key[1]
                       THEN [seen[k] EXCEPT !.last_seen = t, !.y_center = y_center]
                       ELSE seen[k]]
    /\ UNCHANGED <<gametags, max_y_processed, last_processed_ts>>

\* add_detection taking the latest y for min_y_seen
add_detection_latest_y(hero_name, y_center, t) ==
    LET key == _key(hero_name, None) IN
    /\ min_y_seen' = y_center
    /\ seen' = IF key \notin DOMAIN seen
                 THEN seen @@ (key :> SeenCard(hero_name, None, t, y_center, FALSE))
                 ELSE [seen EXCEPT ![key].last_seen = t, ![key].y_center = y_center]
    /\ UNCHANGED <<gametags, max_y_processed, last_processed_ts>>

\* add_detection(hero_name, y_center), t being the time.time() it reads
add_detection(hero_name, y_center, t) ==
    LET key == _key(hero_name, None) IN
    /\ min_y_seen' = Min(min_y_seen, y_center)
    /\ seen' = IF key \notin DOMAIN seen
                 THEN seen @@ (key :> SeenCard(hero_name, None, t, y_center, FALSE))
                 ELSE [seen EXCEPT ![key].last_seen = t, ![key].y_center = y_center]
    /\ UNCHANGED <<gametags, max_y_processed, last_processed_ts>>

\* should_process without its cooldown check
in_cooldown_never(hero_key) == FALSE

\* should_process, lines 286-288: the hero was marked processed less than
\* REPROCESS_COOLDOWN_S ago
in_cooldown(hero_key) ==
    /\ hero_key \in DOMAIN last_processed_ts
    /\ last_processed_ts[hero_key] # 0
    /\ now - last_processed_ts[hero_key] < REPROCESS_COOLDOWN_S

\* the loop body without its skip of unprocessed and UNKNOWN entries
card_blocks_unknown_too(k, hero_key, y_center) ==
    /\ k[1] = hero_key
    /\ \/ now - seen[k].last_seen < PROCESSED_LOCK_S
       \/ Abs(y_center - seen[k].y_center) < SAME_CARD_Y_TOLERANCE

\* the loop body blocking only when recently_seen and same_y_band both hold
card_blocks_lock_and_band(k, hero_key, y_center) ==
    /\ k[1] = hero_key
    /\ ~ (~ seen[k].processed \/ k[2] = UNKNOWN)
    /\ now - seen[k].last_seen < PROCESSED_LOCK_S
    /\ Abs(y_center - seen[k].y_center) < SAME_CARD_Y_TOLERANCE

\* the loop body without its comparison of stored_hero with hero_key
card_blocks_any_hero(k, hero_key, y_center) ==
    /\ ~ (~ seen[k].processed \/ k[2] = UNKNOWN)
    /\ \/ now - seen[k].last_seen < PROCESSED_LOCK_S
       \/ Abs(y_center - seen[k].y_center) < SAME_CARD_Y_TOLERANCE

\* should_process, lines 290-301: the body of the loop over self.seen.items(),
\* TRUE when the entry at key k makes it return False
card_blocks(k, hero_key, y_center) ==
    /\ k[1] = hero_key
    /\ ~ (~ seen[k].processed \/ k[2] = UNKNOWN)
    /\ \/ now - seen[k].last_seen < PROCESSED_LOCK_S
       \/ Abs(y_center - seen[k].y_center) < SAME_CARD_Y_TOLERANCE

\* should_process(hero_name, y_center) -> bool: it writes nothing, so it is the
\* value it returns in the current state
should_process(hero_name, y_center) ==
    LET hero_key == _hero_key(hero_name) IN
    IF in_cooldown(hero_key) THEN FALSE
    ELSE ~ \E k \in DOMAIN seen : card_blocks(k, hero_key, y_center)

\* pop() of every entry of the hero, not of the UNKNOWN one alone
pop_unknown_whole_hero(unknown_key) ==
    [k \in { j \in DOMAIN seen : j[1] # unknown_key[1] } |-> seen[k]]

\* get() in place of pop(): the UNKNOWN entry stays in the map
pop_unknown_keeps(unknown_key) == seen

\* mark_processed, line 319: self.seen.pop(unknown_key, None), the map it leaves
pop_unknown(unknown_key) == [k \in DOMAIN seen \ {unknown_key} |-> seen[k]]

\* the new card taking its y_center from base
new_card_base_y(base, normalized_tag, t, y_center) ==
    SeenCard(base.hero_name, normalized_tag, t, base.y_center, TRUE)

\* the new card keeping the processed flag of base
new_card_base_flag(base, normalized_tag, t, y_center) ==
    SeenCard(base.hero_name, normalized_tag, t, y_center, base.processed)

\* mark_processed, lines 326-332: the card created for a key not yet in the map
new_card(base, normalized_tag, t, y_center) ==
    SeenCard(base.hero_name, normalized_tag, t, y_center, TRUE)

\* mark_processed(hero_name, y_center, gametag), t being the time.time() it reads
mark_processed(hero_name, y_center, gametag, t) ==
    LET hero_key == _hero_key(hero_name)
        normalized_tag == IF Truthy(gametag) THEN Some(str_strip(gametag.s)) ELSE None
        unknown_key == <<hero_key, UNKNOWN>>
        unknown_card == IF unknown_key \in DOMAIN seen THEN Some(seen[unknown_key]) ELSE None
        popped == pop_unknown(unknown_key)
        key == _key(hero_name, normalized_tag)
        base == IF unknown_card.some THEN unknown_card.s
                ELSE SeenCard(hero_name, None, t, y_center, FALSE)
    IN
    /\ seen' = IF key \notin DOMAIN popped
                 THEN popped @@ (key :> new_card(base, normalized_tag, t, y_center))
                 ELSE [popped EXCEPT ![key].gametag = normalized_tag,
                                     ![key].last_seen = t,
                                     ![key].y_center = y_center,
                                     ![key].processed = TRUE]
    /\ max_y_processed' = Max(max_y_processed, y_center)
    /\ gametags' = IF Truthy(normalized_tag)
                     THEN gametags \cup {str_lower(normalized_tag.s)}
                     ELSE gametags
    /\ last_processed_ts' = [k \in DOMAIN last_processed_ts \cup {hero_key} |->
                                IF k = hero_key THEN t ELSE last_processed_ts[k]]
    /\ UNCHANGED min_y_seen

needs_scroll == max_y_processed > min_y_seen + NEEDS_SCROLL_GAP

\* reset(): last_processed_ts is not among the fields it clears
reset ==
    /\ seen' = <<>>
    /\ gametags' = {}
    /\ max_y_processed' = 0
    /\ min_y_seen' = 99999
    /\ UNCHANGED last_processed_ts

----------------------------------------------------------------------------
(* The tracker driven call by call *)

\* the most recent state-changing call: its name and the hero key it wrote
\* under (<<>> for reset)
Call(op, key) == [op |-> op, key |-> key]

NoCall == Call("init", <<>>)

\* what mark_processed was last called with for a hero key; live until the
\* next reset(); again when the call before it was the same call
Marked(hero, y, tag, t, again) ==
    [hero |-> hero, y |-> y, tag |-> tag, ts |-> t, live |-> TRUE, again |-> again]

SameCallAgain(h, y, g) ==
    /\ last.op = "mark_processed"
    /\ last.key = _hero_key(h)
    /\ last.key \in DOMAIN markedAt
    /\ markedAt[last.key].hero = h
    /\ markedAt[last.key].y = y
    /\ markedAt[last.key].tag = g
    /\ markedAt[last.key].live

NoteMarked(h, y, g, t) ==
    /\ last' = Call("mark_processed", _hero_key(h))
    /\ markedAt' = [k \in DOMAIN markedAt \cup {_hero_key(h)} |->
                        IF k = _hero_key(h)
                        THEN Marked(h, y, g, t, SameCallAgain(h, y, g))
                        ELSE markedAt[k]]
    /\ markedTags' = markedTags \cup {<<h, g>>}

NoteReset ==
    /\ last' = Call("reset", <<>>)
    /\ markedAt' = [k \in DOMAIN markedAt |-> [markedAt[k] EXCEPT !.live = FALSE]]
    /\ markedTags' = {}

Cards == { [hero |-> <<"H">>, label |-> <<"X">>],
           [hero |-> <<"H">>, label |-> <<"Y">>],
           [hero |-> <<"g">>, label |-> <<"X">>] }

Init ==
    /\ seen = <<>>
    /\ gametags = {}
    /\ max_y_processed = 0
    /\ min_y_seen = 99999
    /\ last_processed_ts = <<>>
    /\ now = TimeStep
    /\ last = NoCall
    /\ markedAt = <<>>
    /\ markedTags = {}
    /\ calls = 0
    /\ clicks = [c \in Cards |-> 0]
    /\ running = FALSE
    /\ processed_positions = {}
    /\ processed_captain_names = {}
    /\ scan_pc = "idle"
    /\ dragon_found = FALSE
    /\ processed_screens = 0
    /\ no_progress_count = 0
    /\ last_content_hash = NoHash
    /\ screen = NoScreen
    /\ todo = <<>>
    /\ processed_count = 0
    /\ frame_new = 0
    /\ ended_by = "none"
    /\ last_scroll = NoScroll
    /\ captain_clicks = <<>>
    /\ wait_left = 0
    /\ search_i = 0
    /\ marker_found = FALSE
    /\ start_time = 0
    /\ capture_elapsed_time = NoElapsed
    /\ finished_scheduled = 0
    /\ nms_pc = "idle"
    /\ candidates = <<>>
    /\ survivors = <<>>
    /\ sc_pc = "idle"
    /\ content_hashes = {}
    /\ screenshots = <<>>
    /\ no_change_count = 0
    /\ position = 0
    /\ callback_calls = <<>>
    /\ seen_run = 0

AddDetectionUpTo(n, h, y) ==
    /\ calls < n
    /\ add_detection(h, y, now)
    /\ last' = Call("add_detection", _hero_key(h))
    /\ calls' = calls + 1
    /\ UNCHANGED <<now, markedAt, markedTags, clicks>>
    /\ UNCHANGED <<scanVars, coreVars>>

MarkProcessedUpTo(n, h, y, g) ==
    /\ calls < n
    /\ mark_processed(h, y, g, now)
    /\ NoteMarked(h, y, g, now)
    /\ calls' = calls + 1
    /\ UNCHANGED <<now, clicks>>
    /\ UNCHANGED <<scanVars, coreVars>>

ResetUpTo(n) ==
    /\ calls < n
    /\ reset
    /\ NoteReset
    /\ calls' = calls + 1
    /\ UNCHANGED <<now, clicks>>
    /\ UNCHANGED <<scanVars, coreVars>>

AddDetection(h, y) == AddDetectionUpTo(MaxCalls, h, y)
MarkProcessed(h, y, g) == MarkProcessedUpTo(MaxCalls, h, y, g)
Reset == ResetUpTo(MaxCalls)

Tick ==
    /\ now < TimeStep * (MaxTicks + 1)
    /\ now' = now + TimeStep
    /\ UNCHANGED <<trackerVars, histVars, clicks>>
    /\ UNCHANGED <<scanVars, coreVars>>

Next ==
    \/ \E h \in HeroNames, y \in Ys : AddDetection(h, y)
    \/ \E h \in HeroNames, y \in Ys, g \in Labels : MarkProcessed(h, y, g)
    \/ Reset
    \/ Tick

Spec == Init /\ [][Next]_vars

\* the same calls over the spellings, the clock standing still
KeyAddDetection(h, y) == AddDetectionUpTo(MaxKeyCalls, h, y)
KeyMarkProcessed(h, y, g) == MarkProcessedUpTo(MaxKeyCalls, h, y, g)
KeyReset == ResetUpTo(MaxKeyCalls)

NextKeys ==
    \/ \E h \in HeroSpellings, y \in KeyYs : KeyAddDetection(h, y)
    \/ \E h \in HeroSpellings, y \in KeyYs, g \in LabelSpellings : KeyMarkProcessed(h, y, g)
    \/ KeyReset

SpecKeys == Init /\ [][NextKeys]_vars

----------------------------------------------------------------------------
(* BattleReportScraper: the hero branch of process_card, driving the tracker *)

\* vertical screen positions at which detect_cards reports a card: the top of
\* the log area (LOG_REGISTER_AREA['top']) plus the match's rel_y
ScreenYs == { LOG_AREA_TOP + rel_y : rel_y \in { 0, 50, 320 } }

\* capture_gametag(): the text read from the opened panel, stripped (the card's
\* label, or "" when OCR returns only blanks), or None when OCR returns no
\* result or raises
capture_gametag(c) == { Some(c.label), Some(<<>>), None }

\* capture_process, lines 723-725: the session starts with a tracker reset
StartSession ==
    /\ calls < MaxCards
    /\ reset
    /\ NoteReset
    /\ clicks' = [c \in Cards |-> 0]
    /\ calls' = calls + 1
    /\ UNCHANGED now
    /\ UNCHANGED <<scanVars, coreVars>>

\* process_card(card_name, "hero", (x, y)), lines 1221-1249, for a sighting of
\* card c at screen_y, gametag being what capture_gametag() returns if the card
\* is opened
process_card_hero(c, screen_y, gametag) ==
    LET y_center == screen_y + CARD_CENTER_OFFSET IN
    IF ~ should_process(c.hero, y_center)
    THEN /\ add_detection(c.hero, y_center, now)
         /\ last' = Call("add_detection", _hero_key(c.hero))
         /\ UNCHANGED <<now, markedAt, markedTags, clicks>>
    ELSE /\ clicks' = [clicks EXCEPT ![c] = @ + 1]
         /\ now' = now + CLICK_SETTLE_S
         /\ mark_processed(c.hero, y_center, gametag, now')
         /\ NoteMarked(c.hero, y_center, gametag, now')

ProcessCardHero(c, screen_y, gametag) ==
    /\ calls < MaxCards
    /\ calls' = calls + 1
    /\ process_card_hero(c, screen_y, gametag)
    /\ UNCHANGED <<scanVars, coreVars>>

NextDriver ==
    \/ StartSession
    \/ \E c \in Cards, screen_y \in ScreenYs :
          \E gametag \in capture_gametag(c) : ProcessCardHero(c, screen_y, gametag)
    \/ Tick

SpecDriver == Init /\ [][NextDriver]_vars

----------------------------------------------------------------------------
(* BattleReportScraper: what a screenshot shows *)

\* __init__, lines 442-445
ALLOWED_CAPTAINS ==
    { <<"a", "u", "r", "o", "r", "a">>, <<"c", "a", "r", "t", "e", "r">>,
      <<"d", "u", "s", "t", "a", "n">>, <<"f", "a", "r", "h", "a", "d">>,
      <<"h", "e", "l", "e", "n">>, <<"s", "t", "r", "o", "r">>,
      <<"t", "e", "n", "g", "e", "l">> }

\* one tuple of detect_cards: (name, card_type, (abs_x, abs_y), confidence),
\* with the player label the card carries if it is a hero's
Detection(name, card_type, x, y, label) ==
    [name |-> name, card_type |-> card_type, x |-> x, y |-> y, label |-> label]

\* the hero card the scan meets, at the top and near the bottom of the log area
HeroDetections ==
    { Detection(<<"g">>, "hero", LOG_AREA_LEFT + 10, LOG_AREA_TOP + rel_y, <<"X">>) :
          rel_y \in { 0, 320 } }

\* an allowed captain met at several places of the grid
AllowedCaptainDetections ==
    { Detection(<<"H", "e", "l", "e", "n">>, "captain",
                LOG_AREA_LEFT + rel_x, LOG_AREA_TOP + 60, <<>>) :
          rel_x \in { 120, 125, 230, 340 } }

\* a captain that is not allowed
ForbiddenCaptainDetection ==
    Detection(<<"X", "e", "n", "a">>, "captain", LOG_AREA_LEFT + 120, LOG_AREA_TOP + 60, <<>>)

TopHeroDetection ==
    Detection(<<"g">>, "hero", LOG_AREA_LEFT + 10, LOG_AREA_TOP, <<"X">>)

\* a log area: the cards detect_cards finds in it, and a variant for pixels
\* that differ without changing what is detected
LogArea(cards, variant) == [cards |-> cards, variant |-> variant]

\* log areas that show the hero, with and without a captain (SpecScan)
LogAreas ==
    { LogArea({}, 0) }
        \cup { LogArea({d}, 0) : d \in HeroDetections }
        \cup { LogArea({TopHeroDetection}, 1),
               LogArea({TopHeroDetection, ForbiddenCaptainDetection}, 0) }

\* log areas that show no card, or a captain alone (SpecScanCaps)
CaptainLogAreas ==
    { LogArea({}, 0) } \cup { LogArea({d}, 0) : d \in AllowedCaptainDetections }

\* what capture_screen() can return when it returns an image: the log area,
\* and whether a dragon is on the screen
Screenshots ==
    { [cards |-> a.cards, variant |-> a.variant, dragon |-> d] :
          a \in LogAreas, d \in BOOLEAN }

\* a forbidden captain met at two places of the grid
ForbiddenCaptainDetections ==
    { Detection(<<"X", "e", "n", "a">>, "captain",
                LOG_AREA_LEFT + rel_x, LOG_AREA_TOP + 60, <<>>) :
          rel_x \in { 120, 230 } }

\* log areas that show no card, or the forbidden captain once or twice
\* (SpecSession)
SessionLogAreas ==
    { LogArea(cards, 0) : cards \in SUBSET ForbiddenCaptainDetections }

SessionScreenshots ==
    { [cards |-> a.cards, variant |-> a.variant, dragon |-> d] :
          a \in SessionLogAreas, d \in BOOLEAN }

\* screenshots on which the dragon never appears
CaptainScreenshots ==
    { [cards |-> a.cards, variant |-> a.variant, dragon |-> FALSE] :
          a \in CaptainLogAreas }

\* process_all_participants, lines 853-856: the crop of the screenshot
log_area(shot) == LogArea(shot.cards, shot.variant)

\* line 872: hashlib.md5(log_area.tobytes()).hexdigest(), equal for equal pixels
content_hash(area) == <<"md5", area.variant, area.cards>>

\* check_for_dragon(screenshot)
check_for_dragon(shot) == shot.dragon

\* process_current_screen, line 943: all_cards sorted by Y, then X
Before(a, b) == a.y < b.y \/ (a.y = b.y /\ a.x <= b.x)

RECURSIVE sort_cards(_)
sort_cards(S) ==
    IF S = {} THEN <<>>
    ELSE LET first == CHOOSE a \in S : \A b \in S : Before(a, b)
         IN <<first>> \o sort_cards(S \ {first})

----------------------------------------------------------------------------
(* BattleReportScraper: process_card for captains *)

\* Python round(v / 10) * 10: halves go to the even neighbour
round_to_grid(v) ==
    LET q == v \div POSITION_GRID
        r == v % POSITION_GRID
    IN IF 2 * r < POSITION_GRID THEN q * POSITION_GRID
       ELSE IF 2 * r > POSITION_GRID THEN (q + 1) * POSITION_GRID
       ELSE IF q % 2 = 0 THEN q * POSITION_GRID
       ELSE (q + 1) * POSITION_GRID

\* process_card, line 1284
position_key(d) == <<round_to_grid(d.x), round_to_grid(d.y), d.card_type>>

\* the skip by name dropped: a captain is skipped by its position alone
captain_skipped_by_position(d) == position_key(d) \in processed_positions

\* process_card, lines 1279-1287: the captain was handled before
captain_skipped(d) ==
    \/ str_lower(d.name) \in processed_captain_names
    \/ position_key(d) \in processed_positions

\* process_card, line 1295
is_forbidden(d) == str_lower(d.name) \notin ALLOWED_CAPTAINS

\* process_card(card_name, "captain", (x, y)), lines 1276-1334, debug mode off
process_card_captain(d) ==
    IF captain_skipped(d)
    THEN UNCHANGED <<processed_positions, processed_captain_names, now>>
    ELSE /\ processed_positions' = processed_positions \cup {position_key(d)}
         /\ IF is_forbidden(d)
            THEN /\ now' = now + CAPTAIN_SETTLE_S
                 /\ processed_captain_names' =
                        processed_captain_names \cup {str_lower(d.name)}
            ELSE UNCHANGED <<processed_captain_names, now>>

\* what process_card returns, as process_current_screen reads it (line 959):
\* the hero branch returns False when it skips and falls off its end (None)
\* when it clicks; the captain branch returns False when it skips, else True
was_processed(d) ==
    IF d.card_type = "hero" THEN FALSE ELSE ~ captain_skipped(d)

\* the sighting is newly processed: a hero clicked and marked, a captain handled
newly_processed(d) ==
    IF d.card_type = "hero"
    THEN should_process(d.name, d.y + CARD_CENTER_OFFSET)
    ELSE ~ captain_skipped(d)

\* process_card reaches a click_at for this sighting
clicks_card(d) ==
    IF d.card_type = "hero"
    THEN should_process(d.name, d.y + CARD_CENTER_OFFSET)
    ELSE ~ captain_skipped(d) /\ is_forbidden(d)

----------------------------------------------------------------------------
(* BattleReportScraper: the scan loop of one capture session *)

\* the stagnant-content scroll no larger than the others
scroll_amount_stagnant_medium(cards_found, cards_processed, content_changed, needs) ==
    IF cards_found = 0 THEN -30
    ELSE IF cards_processed = 0
         THEN IF ~ content_changed THEN -45
              ELSE IF needs THEN -50
              ELSE -40
    ELSE -25

\* process_all_participants, lines 877-911: the amount passed to pyautogui.scroll
scroll_amount(cards_found, cards_processed, content_changed, needs) ==
    IF cards_found = 0 THEN -30
    ELSE IF cards_processed = 0
         THEN IF ~ content_changed THEN -60
              ELSE IF needs THEN -50
              ELSE -40
    ELSE -25

\* lines 877-911: no_progress_count after the frame
no_progress_after(cards_found, cards_processed) ==
    IF cards_found = 0 \/ cards_processed = 0
    THEN no_progress_count + 1
    ELSE 0

\* the no-progress limit compared one too late
no_progress_exhausted_late(count) == count > NO_PROGRESS_CAP + 1

\* line 916
no_progress_exhausted(count) == count > NO_PROGRESS_CAP

\* no limit on the screens processed
screens_exhausted_never(screens) == FALSE

\* line 921
screens_exhausted(screens) == screens > SCREENS_CAP

\* no break after the dragon's frame
after_screen_no_break(found_dragon) == "decide"

\* where process_all_participants goes once process_current_screen has
\* returned: out of the loop after the dragon's frame (line 865), else on to
\* the scroll decision
after_screen(found_dragon) == IF found_dragon THEN "returned" ELSE "decide"

\* capture_process, lines 768-769: minutes and seconds of the elapsed time
format_elapsed(elapsed) == <<elapsed \div 60, elapsed % 60>>

\* the finally clause skipped: the thread ends without recording anything
LeaveScan_no_finally(pc, why) ==
    /\ scan_pc' = pc
    /\ ended_by' = why
    /\ wait_left' = 0
    /\ search_i' = 0
    /\ UNCHANGED <<running, capture_elapsed_time, finished_scheduled>>

\* the capture thread leaves its work by a return or by an exception caught at
\* line 760: capture_process runs its finally clause (lines 765-776)
LeaveScan(pc, why) ==
    /\ scan_pc' = pc
    /\ ended_by' = why
    /\ wait_left' = 0
    /\ search_i' = 0
    /\ capture_elapsed_time' = format_elapsed(now - start_time)
    /\ running' = FALSE
    /\ finished_scheduled' = finished_scheduled + 1

\* start_capture, lines 683-687 and 703-704, and capture_process, lines
\* 709-715, of the one session explored: wait_time is wait_time_var.get()
StartCapture(wait_time) ==
    /\ scan_pc = "idle"
    /\ running' = TRUE
    /\ processed_positions' = {}
    /\ processed_captain_names' = {}
    /\ clicks' = [c \in Cards |-> 0]
    /\ captain_clicks' = <<>>
    /\ start_time' = now
    /\ wait_left' = wait_time
    /\ scan_pc' = IF wait_time > 0 THEN "wait" ELSE "reset"
    /\ UNCHANGED <<trackerVars, now, histVars, dragon_found, processed_screens,
                   no_progress_count, last_content_hash, screen, todo,
                   processed_count, frame_new, ended_by, last_scroll, search_i,
                   marker_found, capture_elapsed_time, finished_scheduled>>
    /\ UNCHANGED coreVars

\* stop_capture, lines 1575-1577, from the GUI thread or the ESC hotkey
StopCapture ==
    /\ running
    /\ running' = FALSE
    /\ UNCHANGED <<trackerVars, now, histVars, clicks, processed_positions,
                   processed_captain_names, scan_pc, dragon_found,
                   processed_screens, no_progress_count, last_content_hash,
                   screen, todo, processed_count, frame_new, ended_by,
                   last_scroll, captain_clicks, sessionVars>>
    /\ UNCHANGED coreVars

\* capture_process, lines 717-721: one round of the initial wait
WaitLoop ==
    /\ scan_pc = "wait"
    /\ IF ~ running
       THEN /\ LeaveScan("returned", "wait_cancelled")
            /\ UNCHANGED now
       ELSE /\ now' = now + WAIT_STEP_S
            /\ wait_left' = wait_left - 1
            /\ scan_pc' = IF wait_left - 1 > 0 THEN "wait" ELSE "reset"
            /\ UNCHANGED <<running, ended_by, search_i, capture_elapsed_time,
                           finished_scheduled>>
    /\ UNCHANGED <<trackerVars, histVars, clicks, processed_positions,
                   processed_captain_names, dragon_found, processed_screens,
                   no_progress_count, last_content_hash, screen, todo,
                   processed_count, frame_new, last_scroll, captain_clicks,
                   marker_found, start_time>>
    /\ UNCHANGED coreVars

\* capture_process, lines 723-735, and scroll_to_troops_marker, lines 780-792:
\* the trackers are reset, the pointer is moved to the log area and the area
\* is clicked to give it the focus.  fails: a pyautogui.moveTo raises
BeginSearch(fails) ==
    /\ scan_pc = "reset"
    /\ reset
    /\ NoteReset
    /\ processed_positions' = {}
    /\ IF fails
       THEN LeaveScan("raised", "raised")
       ELSE /\ scan_pc' = "search"
            /\ search_i' = 0
            /\ UNCHANGED <<running, ended_by, wait_left, capture_elapsed_time,
                           finished_scheduled>>
    /\ UNCHANGED <<now, calls, clicks, processed_captain_names, dragon_found,
                   processed_screens, no_progress_count, last_content_hash,
                   screen, todo, processed_count, frame_new, last_scroll,
                   captain_clicks, marker_found, start_time>>
    /\ UNCHANGED coreVars

\* what one round of the marker search sees: no image (capture_screen returned
\* None, or cv2.matchTemplate raised), or the best match in percent
NoImage == [image |-> FALSE, max_val |-> 0]
MarkerViews == { NoImage } \cup { [image |-> TRUE, max_val |-> v] : v \in { 50, 75, 90 } }

\* scroll_to_troops_marker, line 814
marker_matches(view) == view.image /\ view.max_val > MARKER_THRESHOLD

\* the scan entered whatever the marker search returned
after_search_always_scan(found) == "capture"

\* capture_process, lines 735-748: where the thread goes when
\* scroll_to_troops_marker has returned
after_search(found) == IF found THEN "capture" ELSE "returned"

\* scroll_to_troops_marker, lines 793-834: one round of the for loop, and what
\* follows its return: capture_process returns (line 737), or enters
\* process_all_participants (lines 748 and 839-842)
ScrollToTroopsMarker(view) ==
    LET exhausted == search_i >= MARKER_MAX_SCROLLS
        cancelled == ~ exhausted /\ ~ running
        found == ~ exhausted /\ ~ cancelled /\ marker_matches(view)
        returns == exhausted \/ cancelled \/ found
    IN
    /\ scan_pc = "search"
    /\ IF ~ returns
       THEN /\ search_i' = search_i + 1
            /\ UNCHANGED <<scan_pc, running, ended_by, wait_left, marker_found,
                           capture_elapsed_time, finished_scheduled,
                           dragon_found, processed_screens, no_progress_count,
                           last_content_hash>>
       ELSE /\ marker_found' = found
            /\ IF after_search(found) = "returned"
               THEN /\ LeaveScan("returned",
                                 IF found THEN "none"
                                 ELSE IF cancelled THEN "search_cancelled"
                                 ELSE "no_marker")
                    /\ UNCHANGED <<dragon_found, processed_screens,
                                   no_progress_count, last_content_hash>>
               ELSE /\ scan_pc' = "capture"
                    /\ search_i' = 0
                    /\ dragon_found' = FALSE
                    /\ processed_screens' = 0
                    /\ no_progress_count' = 0
                    /\ last_content_hash' = NoHash
                    /\ UNCHANGED <<running, ended_by, wait_left,
                                   capture_elapsed_time, finished_scheduled>>
    /\ UNCHANGED <<trackerVars, now, histVars, clicks, processed_positions,
                   processed_captain_names, screen, todo, processed_count,
                   frame_new, last_scroll, captain_clicks, start_time>>
    /\ UNCHANGED coreVars

\* line 844: the while condition fails
LeaveLoop ==
    /\ scan_pc = "capture"
    /\ ~ (~ dragon_found /\ running)
    /\ LeaveScan("returned", "stopped")
    /\ UNCHANGED <<trackerVars, now, histVars, clicks, processed_positions,
                   processed_captain_names, dragon_found, processed_screens,
                   no_progress_count, last_content_hash, screen, todo,
                   processed_count, frame_new, last_scroll, captain_clicks,
                   marker_found, start_time>>
    /\ UNCHANGED coreVars

\* lines 846-850: capture_screen() returns None
CaptureFails ==
    /\ scan_pc = "capture"
    /\ ~ dragon_found /\ running
    /\ LeaveScan("returned", "capture_none")
    /\ UNCHANGED <<trackerVars, now, histVars, clicks, processed_positions,
                   processed_captain_names, dragon_found, processed_screens,
                   no_progress_count, last_content_hash, screen, todo,
                   processed_count, frame_new, last_scroll, captain_clicks,
                   marker_found, start_time>>
    /\ UNCHANGED coreVars

\* lines 846-869 and 935-950: a screenshot is taken, checked for the dragon and
\* handed to process_current_screen, which detects and sorts its cards
CaptureScreen(shot) ==
    /\ scan_pc = "capture"
    /\ ~ dragon_found /\ running
    /\ screen' = shot
    /\ dragon_found' = check_for_dragon(shot)
    /\ todo' = sort_cards(log_area(shot).cards)
    /\ processed_count' = 0
    /\ frame_new' = 0
    /\ scan_pc' = "cards"
    /\ UNCHANGED <<trackerVars, now, histVars, clicks, running,
                   processed_positions, processed_captain_names,
                   processed_screens, no_progress_count, last_content_hash,
                   ended_by, last_scroll, captain_clicks, sessionVars>>
    /\ UNCHANGED coreVars

\* process_card, lines 1243 and 1303: the time.sleep after the click that
\* opens the card's panel
settle_time(d) == IF d.card_type = "hero" THEN CLICK_SETTLE_S ELSE CAPTAIN_SETTLE_S

\* what process_card returns for a card it opened, as line 959 reads it: the
\* hero branch falls off its end (None), the captain branch returns True
opened_count(d) == IF d.card_type = "hero" THEN 0 ELSE 1

\* process_current_screen, lines 953-960: the next step of process_card on
\* the card at the head of the list.
\*   - a card that is to be opened: the click_at (lines 1242, 1302; for a
\*     captain the position is recorded before it, line 1288), after which
\*     the thread is in its time.sleep ("settle").  fails: the
\*     pyautogui.moveTo that opens click_at (line 1478) raises; nothing
\*     between there and capture_process (line 760) catches it;
\*   - in "settle": the sleep runs to its end, the panel is read, the card is
\*     recorded and the panel closed (lines 1243-1274, 1303-1334);
\*   - a card that is not opened: the whole call (lines 1231-1235, 1279-1295).
ScanCard(gametag, fails) ==
    LET d == Head(todo)
        y_center == d.y + CARD_CENTER_OFFSET
        name == str_lower(d.name)
    IN
    /\ todo # <<>>
    /\ IF scan_pc = "settle"
       THEN /\ ~ fails
            /\ now' = now + settle_time(d)
            /\ IF d.card_type = "hero"
               THEN /\ mark_processed(d.name, y_center, gametag, now')
                    /\ NoteMarked(d.name, y_center, gametag, now')
                    /\ UNCHANGED processed_captain_names
               ELSE /\ processed_captain_names' = processed_captain_names \cup {name}
                    /\ UNCHANGED <<trackerVars, last, markedAt, markedTags>>
            /\ processed_count' = processed_count + opened_count(d)
            /\ frame_new' = frame_new + 1
            /\ todo' = Tail(todo)
            /\ scan_pc' = "cards"
            /\ UNCHANGED <<calls, clicks, captain_clicks, processed_positions,
                           running, ended_by, sessionVars>>
       ELSE /\ scan_pc = "cards"
            /\ running
            /\ IF clicks_card(d)
               THEN /\ processed_positions' =
                          IF d.card_type = "captain"
                          THEN processed_positions \cup {position_key(d)}
                          ELSE processed_positions
                    /\ IF fails
                       THEN /\ LeaveScan("raised", "raised")
                            /\ todo' = Tail(todo)
                            /\ UNCHANGED <<clicks, captain_clicks, marker_found,
                                           start_time>>
                       ELSE /\ scan_pc' = "settle"
                            /\ IF d.card_type = "hero"
                               THEN /\ clicks' = [clicks EXCEPT
                                          ![[hero |-> d.name, label |-> d.label]] = @ + 1]
                                    /\ UNCHANGED captain_clicks
                               ELSE /\ captain_clicks' =
                                          [n \in DOMAIN captain_clicks \cup {name} |->
                                              IF n = name
                                              THEN (IF n \in DOMAIN captain_clicks
                                                    THEN captain_clicks[n] ELSE 0) + 1
                                              ELSE captain_clicks[n]]
                                    /\ UNCHANGED clicks
                            /\ UNCHANGED <<todo, running, ended_by, sessionVars>>
                    /\ UNCHANGED <<trackerVars, now, histVars,
                                   processed_captain_names, processed_count,
                                   frame_new>>
               ELSE /\ ~ fails
                    /\ IF d.card_type = "hero"
                       THEN /\ process_card_hero([hero |-> d.name, label |-> d.label],
                                                 d.y, gametag)
                            /\ UNCHANGED <<processed_positions,
                                           processed_captain_names, calls>>
                       ELSE /\ process_card_captain(d)
                            /\ UNCHANGED <<trackerVars, histVars, clicks>>
                    /\ processed_count' =
                           processed_count + (IF was_processed(d) THEN 1 ELSE 0)
                    /\ frame_new' = frame_new + (IF newly_processed(d) THEN 1 ELSE 0)
                    /\ todo' = Tail(todo)
                    /\ UNCHANGED <<running, scan_pc, ended_by, captain_clicks,
                                   sessionVars>>
    /\ UNCHANGED <<dragon_found, processed_screens, no_progress_count,
                   last_content_hash, screen, last_scroll>>
    /\ UNCHANGED coreVars

\* process_current_screen returns (lines 962-967) and process_all_participants
\* goes on: lines 864-865 after the dragon's frame, lines 871-923 otherwise
FinishScreen ==
    LET cards_found == Cardinality(screen.cards)
        hash == content_hash(log_area(screen))
        content_changed == hash # last_content_hash
        count == no_progress_after(cards_found, processed_count)
        screens == processed_screens + 1
    IN
    /\ scan_pc = "cards"
    /\ todo = <<>> \/ ~ running
    /\ IF after_screen(dragon_found) = "returned"
       THEN /\ LeaveScan("returned", "dragon")
            /\ UNCHANGED <<processed_screens, no_progress_count,
                           last_content_hash, last_scroll>>
       ELSE /\ last_content_hash' = hash
            /\ last_scroll' = scroll_amount(cards_found, processed_count,
                                            content_changed, needs_scroll)
            /\ no_progress_count' = count
            /\ processed_screens' = screens
            /\ IF no_progress_exhausted(count)
               THEN LeaveScan("returned", "no_progress")
               ELSE IF screens_exhausted(screens)
               THEN LeaveScan("returned", "screens")
               ELSE /\ scan_pc' = "capture"
                    /\ UNCHANGED <<running, ended_by, wait_left, search_i,
                                   capture_elapsed_time, finished_scheduled>>
    /\ todo' = <<>>
    /\ processed_count' = 0
    /\ frame_new' = 0
    /\ UNCHANGED <<trackerVars, now, histVars, clicks, processed_positions,
                   processed_captain_names, dragon_found, screen,
                   captain_clicks, marker_found, start_time>>
    /\ UNCHANGED coreVars

\* the steps of process_all_participants, over the screenshots it may be given
ScanThread(shots) ==
    \/ LeaveLoop
    \/ CaptureFails
    \/ \E shot \in shots : CaptureScreen(shot)
    \/ \E c \in Cards, fails \in BOOLEAN :
          \E gametag \in capture_gametag(c) : ScanCard(gametag, fails)
    \/ FinishScreen

\* the steps of capture_process before the scan
SearchThread ==
    \/ \E fails \in BOOLEAN : BeginSearch(fails)
    \/ \E view \in MarkerViews : ScrollToTroopsMarker(view)

\* settings of the initial wait: none (SpecScan, SpecScanCaps), or none and
\* two seconds (SpecSession)
NoWait == { 0 }
WaitTimes == { 0, 2 }

\* one capture session over frames of heroes; the clock advances by the waits
\* of process_card alone
NextScan ==
    \/ \E wait_time \in NoWait : StartCapture(wait_time)
    \/ StopCapture
    \/ SearchThread
    \/ ScanThread(Screenshots)

SpecScan == Init /\ [][NextScan]_vars

\* one capture session over frames of captains
NextScanCaps ==
    \/ \E wait_time \in NoWait : StartCapture(wait_time)
    \/ StopCapture
    \/ SearchThread
    \/ ScanThread(CaptainScreenshots)

SpecScanCaps == Init /\ [][NextScanCaps]_vars

\* the capture thread keeps running: every call it makes returns or raises
SpecScanCapsFair == SpecScanCaps /\ WF_vars(ScanThread(CaptainScreenshots))

\* one capture session from the initial wait on, over frames of a forbidden
\* captain
NextSession ==
    \/ \E wait_time \in WaitTimes : StartCapture(wait_time)
    \/ StopCapture
    \/ WaitLoop
    \/ SearchThread
    \/ ScanThread(SessionScreenshots)

SpecSession == Init /\ [][NextSession]_vars

----------------------------------------------------------------------------
(* TemplateMatcher (src/core/template_matcher.py): non-maximum suppression *)

MaxMatches == 3     \* candidates in one list handed to _non_max_suppression

OVERLAP_THRESHOLD_PCT == 50     \* overlap_threshold = 0.5, in percent

\* a MatchResult: position, size, and the confidence in percent
MatchResult(x, y, w, h, confidence) ==
    [position |-> <<x, y>>, size |-> <<w, h>>, confidence |-> confidence]

\* the candidates met: one template at neighbouring places, at its own size and
\* at a wider scale
MatchResults ==
    { MatchResult(x, 0, w, 4, c) : x \in { 0, 1, 2 }, w \in { 4, 8 }, c \in { 80, 85, 90 } }

RECURSIVE SeqsUpTo(_, _)
SeqsUpTo(S, n) ==
    IF n = 0 THEN { <<>> }
    ELSE LET shorter == SeqsUpTo(S, n - 1)
         IN shorter \cup { Append(q, e) : q \in { r \in shorter : Len(r) = n - 1 }, e \in S }

\* lines 290-294: [x, y, x + w, y + h]
box(m) ==
    <<m.position[1], m.position[2],
      m.position[1] + m.size[1], m.position[2] + m.size[2]>>

\* lines 315-320
intersection(a, b) ==
    Max(0, Min(a[3], b[3]) - Max(a[1], b[1])) * Max(0, Min(a[4], b[4]) - Max(a[2], b[2]))

\* lines 323-324
box_area(a) == (a[3] - a[1]) * (a[4] - a[2])

\* lines 327-328
union_area(a, b) == box_area(a) + box_area(b) - intersection(a, b)

\* nothing is filtered
iou_below_threshold_always(a, b) == TRUE

\* lines 328-331: intersection / (union + 1e-6) < overlap_threshold, that is
\* 100 * intersection < 50 * union + 50e-6; the areas being whole numbers of
\* pixels and 50e-6 lying between 0 and 1, an IoU of exactly 0.5 passes
iou_below_threshold(a, b) ==
    100 * intersection(a, b) <= OVERLAP_THRESHOLD_PCT * union_area(a, b)

\* line 300: np.argsort(confidences)[::-1], the orders it may give: confidence
\* descending, equal confidences in an order numpy does not promise
ArgsortDescending(ms) ==
    { p \in [1..Len(ms) -> 1..Len(ms)] :
          /\ \A i, j \in 1..Len(ms) : i # j => p[i] # p[j]
          /\ \A i, j \in 1..Len(ms) : i < j => ms[p[i]].confidence >= ms[p[j]].confidence }

\* lines 302-331: the while loop, from the indices still to look at
RECURSIVE nms_keep(_, _)
nms_keep(indices, ms) ==
    IF indices = <<>> THEN <<>>
    ELSE LET current == Head(indices)
             others == SelectSeq(Tail(indices),
                           LAMBDA i : iou_below_threshold(box(ms[current]), box(ms[i])))
         IN <<current>> \o nms_keep(others, ms)

\* match_template, lines 200-213: the candidates are collected and handed to
\* _non_max_suppression (lines 269-334); survivors holds the indices kept
MatchTemplate(ms, order) ==
    /\ nms_pc = "idle"
    /\ candidates' = ms
    /\ survivors' = nms_keep(order, ms)
    /\ nms_pc' = "matched"
    /\ UNCHANGED <<trackerVars, now, histVars, clicks, scanVars, sc_pc,
                   content_hashes, screenshots, no_change_count, position,
                   callback_calls, seen_run>>

\* the candidate lists match_template may collect
CandidateLists == SeqsUpTo(MatchResults, MaxMatches)

NextMatcher ==
    /\ nms_pc = "idle"
    /\ \E ms \in CandidateLists :
          \E order \in ArgsortDescending(ms) : MatchTemplate(ms, order)

SpecMatcher == Init /\ [][NextMatcher]_vars

----------------------------------------------------------------------------
(* BattleReportScraper: detect_cards and its distance-based suppression *)

MaxFound == 2       \* matches of hero templates in one log area

CONFIDENCE_FILTER == 78     \* detect_cards: confidence >= 0.78, in percent
NMS_DISTANCE == 45          \* detect_cards: overlap_thresh=45

\* a match the template matcher reports for a named template: the position
\* in the log area and the confidence in percent
NamedMatch(name, rel_x, rel_y, confidence) ==
    [name |-> name, rel_x |-> rel_x, rel_y |-> rel_y, confidence |-> confidence]

\* places 30 px, 45 px and 54 px apart
MatchPlaces == { <<0, 0>>, <<30, 0>>, <<27, 36>> }

\* matches of two hero templates, and of a captain template that carries the
\* name of the first
HeroMatches ==
    { NamedMatch(n, p[1], p[2], c) :
          n \in { <<"a">>, <<"b">> }, p \in MatchPlaces, c \in { 70, 80, 90 } }
CaptainMatches ==
    { NamedMatch(<<"a">>, 30, 0, c) : c \in { 80, 90 } }

HeroMatchLists == SeqsUpTo(HeroMatches, MaxFound)
CaptainMatchLists == { <<>> } \cup { <<m>> : m \in CaptainMatches }

\* detect_cards, lines 992-1005: (name, card_type, (abs_x, abs_y), confidence)
FoundCard(m, card_type) ==
    [name |-> m.name, card_type |-> card_type,
     x |-> LOG_AREA_LEFT + m.rel_x, y |-> LOG_AREA_TOP + m.rel_y,
     confidence |-> m.confidence]

\* detect_cards, lines 992-1005: the matches that pass the confidence filter
found_cards(ms, card_type) ==
    LET passed == SelectSeq(ms, LAMBDA m : m.confidence >= CONFIDENCE_FILTER)
    IN [i \in 1..Len(passed) |-> FoundCard(passed[i], card_type)]

\* cards_dict.sort(key=lambda x: x['confidence'], reverse=True): Python's
\* sort is stable, so that cards of equal confidence keep their order
RECURSIVE insert_by_confidence(_, _)
insert_by_confidence(e, sorted) ==
    IF sorted = <<>> THEN <<e>>
    ELSE IF e.confidence > Head(sorted).confidence THEN <<e>> \o sorted
    ELSE <<Head(sorted)>> \o insert_by_confidence(e, Tail(sorted))

RECURSIVE sort_by_confidence(_)
sort_by_confidence(q) ==
    IF q = <<>> THEN <<>>
    ELSE insert_by_confidence(q[Len(q)], sort_by_confidence(SubSeq(q, 1, Len(q) - 1)))

\* all_cards.sort(key=lambda c: (c[2][1], c[2][0])), stable as well
RECURSIVE insert_by_position(_, _)
insert_by_position(e, sorted) ==
    IF sorted = <<>> THEN <<e>>
    ELSE IF \/ e.y < Head(sorted).y
            \/ e.y = Head(sorted).y /\ e.x < Head(sorted).x
         THEN <<e>> \o sorted
    ELSE <<Head(sorted)>> \o insert_by_position(e, Tail(sorted))

RECURSIVE sort_by_position(_)
sort_by_position(q) ==
    IF q = <<>> THEN <<>>
    ELSE insert_by_position(q[Len(q)], sort_by_position(SubSeq(q, 1, Len(q) - 1)))

\* the name of the cards not compared
too_close_any_name(card, kept_card, overlap_thresh) ==
    LET dx == Abs(card.x - kept_card.x)
        dy == Abs(card.y - kept_card.y)
    IN dx * dx + dy * dy < overlap_thresh * overlap_thresh

\* non_max_suppression, lines 1201-1207: (dx**2 + dy**2) ** 0.5 < overlap_thresh
\* and the names equal; for whole numbers the root is below the threshold
\* exactly when the sum of squares is below its square
too_close(card, kept_card, overlap_thresh) ==
    LET dx == Abs(card.x - kept_card.x)
        dy == Abs(card.y - kept_card.y)
    IN /\ dx * dx + dy * dy < overlap_thresh * overlap_thresh
       /\ card.name = kept_card.name

\* non_max_suppression, lines 1197-1211: the loop over the sorted cards
RECURSIVE distance_keep(_, _, _)
distance_keep(cards, keep, overlap_thresh) ==
    IF cards = <<>> THEN keep
    ELSE LET card == Head(cards)
             close == \E i \in 1..Len(keep) : too_close(card, keep[i], overlap_thresh)
         IN distance_keep(Tail(cards),
                          IF close THEN keep ELSE Append(keep, card),
                          overlap_thresh)

\* non_max_suppression(cards, overlap_thresh), lines 1163-1214
non_max_suppression(cards, overlap_thresh) ==
    distance_keep(sort_by_confidence(cards), <<>>, overlap_thresh)

\* detect_cards(screenshot, templates, card_type), ms being what
\* find_all_templates returns for the templates
detect_cards(ms, card_type) ==
    non_max_suppression(found_cards(ms, card_type), NMS_DISTANCE)

\* process_current_screen, lines 937-943: heroes and captains are detected,
\* each list by its own detect_cards call, joined and sorted by y, then x
DetectScreen(hero_matches, captain_matches) ==
    /\ nms_pc = "idle"
    /\ candidates' = [heroes |-> hero_matches, captains |-> captain_matches]
    /\ survivors' =
           sort_by_position(detect_cards(hero_matches, "hero")
                                \o detect_cards(captain_matches, "captain"))
    /\ nms_pc' = "detected"
    /\ UNCHANGED <<trackerVars, now, histVars, clicks, scanVars, sc_pc,
                   content_hashes, screenshots, no_change_count, position,
                   callback_calls, seen_run>>

NextDetect ==
    /\ nms_pc = "idle"
    /\ \E hero_matches \in HeroMatchLists, captain_matches \in CaptainMatchLists :
          DetectScreen(hero_matches, captain_matches)

SpecDetect == Init /\ [][NextDetect]_vars

----------------------------------------------------------------------------
(* ScrollController: scroll_until_no_change *)

MaxContents == 3    \* contents the scrolled log can show

MAX_RETRIES == 5    \* config['max_retries']

\* a captured image: what survives the crop to the region and the resize by
\* hash_precision, and the detail that they discard
Screen(content, detail) == [content |-> content, detail |-> detail]

Screens == { Screen(c, d) : c \in 1..MaxContents, d \in { 0, 1 } }

\* compute_content_hash(image, region): the md5 digest of the cropped and
\* resized image, equal for images that differ only in the discarded detail
compute_content_hash(image) == <<"md5", image.content>>

\* the counter does not start again on a new hash
next_no_change_count_never_reset(count, known) ==
    IF known THEN count + 1 ELSE count

\* lines 260-264: no_change_count += 1 on a known hash, = 0 on a new one
next_no_change_count(count, known) ==
    IF known THEN count + 1 ELSE 0

\* other state is left alone by the controller
otherThanScroll == <<trackerVars, now, histVars, clicks, scanVars,
                     nms_pc, candidates, survivors>>

\* scroll_until_no_change, lines 228-247: the initial capture, added to the
\* hashes and to the result whatever its hash, without a callback
ScrollUntilNoChange(current_screen) ==
    /\ sc_pc \in { "idle", "returned" }
    /\ content_hashes' = content_hashes \cup { compute_content_hash(current_screen) }
    /\ screenshots' = <<current_screen>>
    /\ no_change_count' = 0
    /\ position' = 1
    /\ callback_calls' = <<>>
    /\ seen_run' = 0
    /\ sc_pc' = "loop"
    /\ UNCHANGED otherThanScroll

\* scroll_until_no_change, lines 249-281: one pass of the loop
ScrollAndCapture(new_screen) ==
    /\ sc_pc = "loop"
    /\ no_change_count < MAX_RETRIES
    /\ LET new_hash == compute_content_hash(new_screen)
           known == new_hash \in content_hashes
       IN /\ no_change_count' = next_no_change_count(no_change_count, known)
          /\ seen_run' = IF known THEN seen_run + 1 ELSE 0
          /\ IF known
             THEN UNCHANGED <<content_hashes, screenshots, callback_calls>>
             ELSE /\ content_hashes' = content_hashes \cup { new_hash }
                  /\ screenshots' = Append(screenshots, new_screen)
                  /\ callback_calls' = Append(callback_calls, <<new_screen, position>>)
    /\ position' = position + 1
    /\ UNCHANGED sc_pc
    /\ UNCHANGED otherThanScroll

\* scroll_until_no_change, lines 249 and 283-284: the loop ends, the
\* screenshots are returned
ScrollReturn ==
    /\ sc_pc = "loop"
    /\ ~ (no_change_count < MAX_RETRIES)
    /\ sc_pc' = "returned"
    /\ UNCHANGED <<content_hashes, screenshots, no_change_count, position,
                   callback_calls, seen_run>>
    /\ UNCHANGED otherThanScroll

\* reset(), lines 415-418
ControllerReset ==
    /\ sc_pc = "returned"
    /\ content_hashes # {}
    /\ content_hashes' = {}
    /\ UNCHANGED <<sc_pc, screenshots, no_change_count, position,
                   callback_calls, seen_run>>
    /\ UNCHANGED otherThanScroll

NextScroll ==
    \/ \E current_screen \in Screens : ScrollUntilNoChange(current_screen)
    \/ \E new_screen \in Screens : ScrollAndCapture(new_screen)
    \/ ScrollReturn
    \/ ControllerReset

SpecScroll == Init /\ [][NextScroll]_vars

----------------------------------------------------------------------------
(* Vocabulary of the claims *)

\* a Confirmed entry: its label is captured and processed = true
IsConfirmed(k) == k[2] # UNKNOWN /\ seen[k].processed

ConfirmedOf(hero_key) == { k \in DOMAIN seen : k[1] = hero_key /\ IsConfirmed(k) }

\* y1 lies within the vertical tolerance band of y2
InBand(y1, y2) == Abs(y1 - y2) < SAME_CARD_Y_TOLERANCE

\* trimmed and lower-cased
NormText(s) == str_lower(str_strip(s))

IsNormal(s) == NormText(s) = s

NonEmpty(g) == g.some /\ g.s # <<>>

NonBlank(g) == g.some /\ str_strip(g.s) # <<>>

\* the mark_processed calls since the last reset() whose label is not blank
LabelledMarks == { m \in markedTags : NonBlank(m[2]) }

IdentityOf(m) == <<NormText(m[1]), Some(NormText(m[2].s))>>

\* what the idempotence claim compares: keys, processed flags, y_center values,
\* the known-label set and the watermarks
TrackerSummary ==
    [ keys |-> DOMAIN seen,
      cards |-> [k \in DOMAIN seen |-> <<seen[k].processed, seen[k].y_center>>],
      gametags |-> gametags,
      max_y_processed |-> max_y_processed,
      min_y_seen |-> min_y_seen ]

----------------------------------------------------------------------------
(* C1, under SpecDriver *)

\* C1: within one scan session (since the last reset) the driver clicks a
\* physical card, the same hero with the same player label, at most once,
\* wherever the card is re-sighted.
C1_CardClickedAtMostOnce == \A c \in Cards : clicks[c] <= 1

----------------------------------------------------------------------------
(* C2, under Spec *)

----------------------------------------------------------------------------
(* C3, under Spec *)

\* C3: as long as mark_processed has never been called, whatever
\* add_detection calls were made, should_process returns true for every
\* name and every y.
C3_UnconfirmedNeverBlocks ==
    DOMAIN markedAt = {} =>
        \A h \in HeroNames, y \in Ys : should_process(h, y)

\* add_detection has just recorded the hero within the band of y, nothing was
\* ever marked, and should_process(hero, y) is true
C3_UnconfirmedSeenNearby ==
    /\ DOMAIN markedAt = {}
    /\ last.op = "add_detection"
    /\ \E h \in HeroNames, y \in Ys :
          /\ NormText(h) = last.key
          /\ <<last.key, UNKNOWN>> \in DOMAIN seen
          /\ InBand(y, seen[<<last.key, UNKNOWN>>].y_center)
          /\ should_process(h, y)

----------------------------------------------------------------------------
(* C4, under SpecKeys *)

\* C4 as claimed: right after mark_processed(hero, y, label) with a non-empty
\* label the tracker holds no (hero, UNKNOWN) entry and holds the entry keyed
\* by the normalized hero and label, with processed = true.
C4_MergeOnConfirmNonEmpty ==
    (last.op = "mark_processed" /\ NonEmpty(markedAt[last.key].tag)) =>
        LET key == <<last.key, Some(NormText(markedAt[last.key].tag.s))>> IN
        /\ <<last.key, UNKNOWN>> \notin DOMAIN seen
        /\ key \in DOMAIN seen
        /\ seen[key].processed

\* C4 as amended: right after mark_processed(hero, y, label) with a label that
\* is not blank (non-empty once trimmed) the tracker holds no (hero, UNKNOWN)
\* entry and holds the entry keyed by the normalized hero and label, with
\* processed = true.
C4_MergeOnConfirmNonBlank ==
    (last.op = "mark_processed" /\ NonBlank(markedAt[last.key].tag)) =>
        LET key == <<last.key, Some(NormText(markedAt[last.key].tag.s))>> IN
        /\ <<last.key, UNKNOWN>> \notin DOMAIN seen
        /\ key \in DOMAIN seen
        /\ seen[key].processed

\* the first mark_processed since the reset merged an Unconfirmed entry: the
\* Confirmed entry carries the hero_name add_detection recorded, spelled
\* differently from the one mark_processed was called with
C4_UnconfirmedMerged ==
    /\ last.op = "mark_processed"
    /\ NonBlank(markedAt[last.key].tag)
    /\ Cardinality(markedTags) = 1
    /\ LET key == <<last.key, Some(NormText(markedAt[last.key].tag.s))>> IN
       /\ key \in DOMAIN seen
       /\ seen[key].hero_name # markedAt[last.key].hero
       /\ <<last.key, UNKNOWN>> \notin DOMAIN seen

----------------------------------------------------------------------------
(* C5, under SpecKeys *)

\* C5: a mark_processed call with the same arguments as the call just before
\* it leaves the entry keys, the processed flags, the y_center values, the
\* known-label set and both watermarks as they were.
C5_IdempotentConfirmation ==
    [][ ( /\ last'.op = "mark_processed"
          /\ calls' = calls + 1
          /\ markedAt'[last'.key].again )
        => TrackerSummary' = TrackerSummary ]_vars

\* the same mark_processed call was just made a second time, the first of
\* them having merged an Unconfirmed entry seen at another y
C5_SameCallTwice ==
    /\ last.op = "mark_processed"
    /\ markedAt[last.key].again
    /\ <<last.key, UNKNOWN>> \notin DOMAIN seen
    /\ min_y_seen <= max_y_processed
    /\ min_y_seen # markedAt[last.key].y

----------------------------------------------------------------------------
(* C6, under Spec *)

\* C6 as claimed: after mark_processed(hero, y0, label) with a non-empty
\* label, and until the next mark_processed for the hero, should_process(hero,
\* y) is false for every y within the tolerance band of y0, whatever time has
\* passed.
C6_ProximityBlocksNonEmpty ==
    \A hk \in DOMAIN markedAt :
        NonEmpty(markedAt[hk].tag) =>
            \A y \in Ys :
                InBand(y, markedAt[hk].y) => ~ should_process(markedAt[hk].hero, y)

\* C6 as amended: after mark_processed(hero, y0, label) with a label that is
\* not blank, and until the next mark_processed for the hero or the next
\* reset(), should_process(hero, y) is false for every y within the tolerance
\* band of y0, whatever time has passed.
C6_ProximityBlocksNonBlank ==
    \A hk \in DOMAIN markedAt :
        (markedAt[hk].live /\ NonBlank(markedAt[hk].tag)) =>
            \A y \in Ys :
                InBand(y, markedAt[hk].y) => ~ should_process(markedAt[hk].hero, y)

\* the cooldown has run out and a sighting at another y inside the band is
\* still skipped
C6_BlockedAfterCooldown ==
    \E hk \in DOMAIN markedAt :
        /\ markedAt[hk].live
        /\ NonBlank(markedAt[hk].tag)
        /\ now - markedAt[hk].ts >= REPROCESS_COOLDOWN_S
        /\ \E y \in Ys :
              /\ y # markedAt[hk].y
              /\ InBand(y, markedAt[hk].y)
              /\ ~ should_process(markedAt[hk].hero, y)

----------------------------------------------------------------------------
(* C7, under Spec *)

----------------------------------------------------------------------------
(* C8, under SpecKeys *)

\* both labels are kept: separate processed entries, both in the label set
BothKept(a, b) ==
    /\ IdentityOf(a) # IdentityOf(b)
    /\ IdentityOf(a) \in DOMAIN seen
    /\ IdentityOf(b) \in DOMAIN seen
    /\ seen[IdentityOf(a)].processed
    /\ seen[IdentityOf(b)].processed
    /\ NormText(a[2].s) \in gametags
    /\ NormText(b[2].s) \in gametags

\* C8 as claimed: after mark_processed for one hero with two labels that
\* differ case-insensitively, the tracker holds two separate Confirmed entries,
\* both processed, and the known-label set holds both labels.
C8_BothLabelsKeptCaseInsensitive ==
    \A a, b \in markedTags :
        ( /\ NormText(a[1]) = NormText(b[1])
          /\ NonEmpty(a[2]) /\ NonEmpty(b[2])
          /\ str_lower(a[2].s) # str_lower(b[2].s) )
        => BothKept(a, b)

\* C8 as amended: after mark_processed for one hero with two labels that are
\* not blank and differ once trimmed and lower-cased, the tracker holds two
\* separate Confirmed entries, both processed, and the known-label set holds
\* both labels.
C8_BothLabelsKeptNormalized ==
    \A a, b \in markedTags :
        ( /\ NormText(a[1]) = NormText(b[1])
          /\ NonBlank(a[2]) /\ NonBlank(b[2])
          /\ NormText(a[2].s) # NormText(b[2].s) )
        => BothKept(a, b)

\* one hero was just confirmed with a second, different label
C8_TwoLabelsConfirmed ==
    /\ last.op = "mark_processed"
    /\ \E a, b \in LabelledMarks :
          /\ NormText(a[1]) = last.key
          /\ NormText(b[1]) = last.key
          /\ NormText(a[2].s) # NormText(b[2].s)
          /\ b[2] = markedAt[last.key].tag
          /\ Cardinality(ConfirmedOf(last.key)) = 2

----------------------------------------------------------------------------
(* C9, under SpecKeys *)

\* C9: every key of the seen map and every known label is trimmed and
\* lower-cased; the labelled entries and the known labels are exactly the
\* normalized identities confirmed since the reset, one per identity however
\* it was spelled; and should_process answers alike for two spellings of a hero.
C9_IdentityKeysNormalized ==
    /\ \A k \in DOMAIN seen : IsNormal(k[1]) /\ (k[2] # UNKNOWN => IsNormal(k[2].s))
    /\ \A t \in gametags : IsNormal(t)
    /\ { k \in DOMAIN seen : k[2] # UNKNOWN } = { IdentityOf(m) : m \in LabelledMarks }
    /\ gametags = { NormText(m[2].s) : m \in LabelledMarks }
    /\ \A h1, h2 \in HeroSpellings, y \in KeyYs :
          NormText(h1) = NormText(h2) => (should_process(h1, y) <=> should_process(h2, y))

\* a hero was confirmed under two spellings of its name and of one label, and
\* the tracker holds one entry and one known label
C9_TwoSpellingsOneEntry ==
    /\ last.op = "mark_processed"
    /\ \E a, b \in LabelledMarks :
          /\ a[1] # b[1]
          /\ a[2] # b[2]
          /\ IdentityOf(a) = IdentityOf(b)
    /\ Cardinality(DOMAIN seen) = 1
    /\ Cardinality(gametags) = 1

----------------------------------------------------------------------------
(* C10, under Spec *)

\* what add_detection does apart from the entries it may rewrite: it adds no
\* key but (hero, UNKNOWN), leaves every other entry, the known-label set and
\* max_y_processed alone, and lowers min_y_seen to min(min_y_seen, y)
AddDetectionFrame(ukey) ==
    /\ DOMAIN seen' = DOMAIN seen \cup {ukey}
    /\ \A k \in DOMAIN seen \ {ukey} : seen'[k] = seen[k]
    /\ min_y_seen' = Min(min_y_seen, seen'[ukey].y_center)
    /\ gametags' = gametags
    /\ max_y_processed' = max_y_processed

\* C10 as claimed: add_detection creates or refreshes only the (hero, UNKNOWN)
\* entry, lowers min_y_seen, creates no labelled entry, changes no field of an
\* entry that has processed = true, and leaves the known-label set and
\* max_y_processed unchanged.
C10_AddDetectionSparesProcessed ==
    [][ (last'.op = "add_detection" /\ calls' = calls + 1) =>
            /\ AddDetectionFrame(<<last'.key, UNKNOWN>>)
            /\ \A k \in DOMAIN seen : seen[k].processed => seen'[k] = seen[k] ]_vars

\* C10 as amended: add_detection creates or refreshes only the (hero, UNKNOWN)
\* entry, lowers min_y_seen, creates no labelled entry, changes no field of an
\* entry that has a label, and leaves the known-label set and max_y_processed
\* unchanged; of an existing (hero, UNKNOWN) entry it rewrites last_seen and
\* y_center and nothing else, also when a mark_processed without a label has
\* set that entry's processed flag.
C10_AddDetectionSparesLabelled ==
    [][ (last'.op = "add_detection" /\ calls' = calls + 1) =>
            LET ukey == <<last'.key, UNKNOWN>> IN
            /\ AddDetectionFrame(ukey)
            /\ \A k \in DOMAIN seen : k[2] # UNKNOWN => seen'[k] = seen[k]
            /\ ukey \in DOMAIN seen =>
                  seen'[ukey] = [seen[ukey] EXCEPT !.last_seen = now,
                                                   !.y_center = seen'[ukey].y_center]
            /\ ukey \notin DOMAIN seen => ~ seen'[ukey].processed ]_vars

\* add_detection has just moved the y_center of a (hero, UNKNOWN) entry that a
\* mark_processed without a label had flagged processed
C10_ProcessedUnknownRefreshed ==
    /\ last.op = "add_detection"
    /\ <<last.key, UNKNOWN>> \in DOMAIN seen
    /\ seen[<<last.key, UNKNOWN>>].processed
    /\ last.key \in DOMAIN markedAt
    /\ seen[<<last.key, UNKNOWN>>].y_center # markedAt[last.key].y

----------------------------------------------------------------------------
(* C11, under Spec *)

\* C11 as claimed: after mark_processed(hero, y, None), and until the next
\* mark_processed for the hero or the next reset(), should_process(hero, y') is
\* false while the cooldown runs and false whenever y' is within the tolerance
\* band of y; the attempt leaves no label in the known-label set.
C11_LabelLessMarkStillSkipped ==
    \A hk \in DOMAIN markedAt :
        (markedAt[hk].live /\ markedAt[hk].tag = None) =>
            /\ \A y \in Ys :
                  ( \/ now - markedAt[hk].ts < REPROCESS_COOLDOWN_S
                    \/ InBand(y, markedAt[hk].y) )
                  => ~ should_process(markedAt[hk].hero, y)
            /\ (LabelledMarks = {} => gametags = {})

----------------------------------------------------------------------------
(* C12, under Spec *)

\* C12 as claimed: right after reset() the tracker is as a newly constructed
\* one: no entries, no known labels, both watermarks at their initial values,
\* and should_process true for every hero and y.
C12_ResetIsNewTracker ==
    last.op = "reset" =>
        /\ seen = <<>>
        /\ gametags = {}
        /\ max_y_processed = 0
        /\ min_y_seen = 99999
        /\ \A h \in HeroNames, y \in Ys : should_process(h, y)

----------------------------------------------------------------------------
(* C13, under SpecKeys *)

\* C13: a step that is not a reset() removes no entry that has a label,
\* returns no such entry's processed flag to false, and takes no label out of
\* the known-label set.
C13_NoReverseTransition ==
    [][ last'.op # "reset" =>
            /\ \A k \in DOMAIN seen :
                  k[2] # UNKNOWN =>
                      /\ k \in DOMAIN seen'
                      /\ seen[k].processed => seen'[k].processed
            /\ gametags \subseteq gametags' ]_vars

\* a hero confirmed under a label has since been marked again without a
\* label, and its labelled entry is still there, processed
C13_ConfirmedOutlivesLaterMark ==
    /\ last.op = "mark_processed"
    /\ ~ NonBlank(markedAt[last.key].tag)
    /\ ConfirmedOf(last.key) # {}
    /\ <<last.key, UNKNOWN>> \in DOMAIN seen

----------------------------------------------------------------------------
(* Vocabulary of the scan loop's claims *)

\* the step in which process_all_participants, a frame processed, scrolls and
\* updates its counters (lines 871-923)
ScrollStep == scan_pc = "cards" /\ processed_screens' = processed_screens + 1

\* the scan loop has been left
ScanOver == scan_pc \in {"returned", "raised"}

----------------------------------------------------------------------------
(* C14, under SpecScan *)

\* C14 as claimed: after a frame in which at least one card was newly
\* processed (a hero clicked and passed to mark_processed, or a captain
\* handled) the no-progress counter is 0; after a frame with no newly
\* processed card it is one more than before.
C14_CounterFollowsNewlyProcessed ==
    [][ ScrollStep =>
            IF frame_new > 0
            THEN no_progress_count' = 0
            ELSE no_progress_count' = no_progress_count + 1 ]_vars

----------------------------------------------------------------------------
(* C15, under SpecScanCaps *)

\* C15 as claimed: once the no-progress counter has reached the cap of 10 the
\* scan loop has terminated, the terminal marker not found.
C15_LoopEndsAtCap ==
    no_progress_count >= NO_PROGRESS_CAP =>
        scan_pc = "returned" /\ ~ dragon_found

\* C15 as amended: once the no-progress counter exceeds the cap of 10, which
\* it does on the 11th consecutive frame without progress, the scan loop has
\* terminated, the terminal marker not found; the counter never goes beyond 11.
C15_LoopEndsAboveCap ==
    /\ no_progress_count <= NO_PROGRESS_CAP + 1
    /\ no_progress_count > NO_PROGRESS_CAP =>
           scan_pc = "returned" /\ ended_by = "no_progress" /\ ~ dragon_found

\* the loop was left on the no-progress limit after frames that made progress
C15_EndedWithoutProgress ==
    /\ ended_by = "no_progress"
    /\ no_progress_count = NO_PROGRESS_CAP + 1
    /\ processed_screens > NO_PROGRESS_CAP + 1
    /\ processed_positions # {}

----------------------------------------------------------------------------
(* C16, under SpecScanCapsFair *)

\* C16: whatever the frames show, the dragon never appearing, the scan loop
\* processes at most SCREENS_CAP + 1 frames and, once entered, is left by a
\* return.
C16_ScanLoopTerminates ==
    /\ [](processed_screens <= SCREENS_CAP + 1)
    /\ (scan_pc = "capture") ~> (scan_pc = "returned")

\* the loop was left on the limit of processed screens, cards still being
\* newly processed
C16_EndedOnScreensCap ==
    /\ ended_by = "screens"
    /\ scan_pc = "returned"
    /\ processed_screens = SCREENS_CAP + 1
    /\ no_progress_count <= NO_PROGRESS_CAP
    /\ ~ dragon_found

----------------------------------------------------------------------------
(* C17, under SpecScan *)

\* C17: when a frame shows cards, none of them newly processed, and its
\* content hash equals the previous frame's, the amount scrolled is larger in
\* magnitude than the amount chosen for the same frame with a different hash,
\* with needs_scroll() true and with needs_scroll() false.
C17_StagnantScrollIsLargest ==
    [][ ( /\ ScrollStep
          /\ screen.cards # {}
          /\ frame_new = 0
          /\ content_hash(log_area(screen)) = last_content_hash )
        => \A needs \in BOOLEAN :
               Abs(last_scroll') >
                   Abs(scroll_amount(Cardinality(screen.cards), processed_count,
                                     TRUE, needs)) ]_vars

\* the same frame came twice, its cards skipped, with needs_scroll() true
C17_StagnantFrameScrolled ==
    /\ scan_pc = "capture"
    /\ last_scroll = -60
    /\ last_content_hash # NoHash
    /\ last_content_hash[3] # {}
    /\ needs_scroll
    /\ no_progress_count >= 2

----------------------------------------------------------------------------
(* C18, under SpecScan *)

\* C18: the frame on which the dragon is detected is handed to
\* process_current_screen once, each of its sightings going to process_card
\* once (unless the run is stopped or a click raises meanwhile); from then on
\* no scroll is issued, no frame is captured or processed, and the loop is
\* left.
C18_TerminalFrameProcessedOnce ==
    [][ /\ (~ dragon_found /\ dragon_found') =>
               /\ scan_pc' = "cards"
               /\ Len(todo') = Cardinality(screen'.cards)
               /\ { todo'[i] : i \in 1..Len(todo') } = screen'.cards
        /\ dragon_found =>
               /\ dragon_found'
               /\ screen' = screen
               /\ processed_screens' = processed_screens
               /\ last_scroll' = last_scroll
               /\ last_content_hash' = last_content_hash
               /\ scan_pc' \in {"cards", "settle", "returned", "raised"}
               /\ scan_pc' \in {"cards", "settle"} =>
                      /\ scan_pc \in {"cards", "settle"}
                      /\ \/ todo' = todo
                         \/ todo # <<>> /\ todo' = Tail(todo)
               /\ (scan_pc = "cards" /\ scan_pc' = "returned") =>
                      (ended_by' = "dragon" /\ (running => todo = <<>>)) ]_vars

\* the loop was left after the dragon's frame, which showed two cards, frames
\* having been scrolled before it
C18_EndedOnDragon ==
    /\ ended_by = "dragon"
    /\ scan_pc = "returned"
    /\ Cardinality(screen.cards) = 2
    /\ processed_captain_names # {}
    /\ processed_screens >= 1
    /\ todo = <<>>

----------------------------------------------------------------------------
(* C19, under SpecScan *)

\* C19 as claimed: a capture_screen() that yields no image aborts the
\* iteration alone; the scan loop is not left because of it.
C19_CaptureFailureKeepsScanning ==
    ended_by = "capture_none" => ~ ScanOver

----------------------------------------------------------------------------
(* C20, under SpecScan *)

\* C20 as claimed: a failure raised while one sighting is processed is
\* contained to that sighting; the scan is not aborted by it.
C20_SightingFailureContained ==
    ended_by = "raised" => ~ ScanOver

----------------------------------------------------------------------------
(* C26, under SpecKeys *)

\* the label keys of the entries of the seen map whose label is not UNKNOWN
LabelKeysSeen == { k[2].s : k \in { j \in DOMAIN seen : j[2] # UNKNOWN } }

\* C26: after any sequence of tracker operations the known-label set is
\* exactly the set of label keys of the entries of the seen map whose label
\* is not UNKNOWN.
C26_GametagsAreLabelKeysSeen == gametags = LabelKeysSeen

\* two heroes hold entries under one label, written in two spellings, beside
\* an entry without label
C26_OneLabelTwoEntries ==
    /\ Cardinality({ k \in DOMAIN seen : k[2] # UNKNOWN }) = 2
    /\ Cardinality(gametags) = 1
    /\ \E k \in DOMAIN seen : k[2] = UNKNOWN
    /\ \E p \in markedTags : p[2].some /\ p[2].s # <<>> /\ p[2].s \notin gametags

----------------------------------------------------------------------------
(* C27, under SpecKeys *)

\* C27: every entry whose label is not UNKNOWN has processed = true; an entry
\* add_detection creates has processed = false, and an entry's flag turns
\* true only in a mark_processed call for its hero.
C27_LabelledProcessedUnknownUntilMarked ==
    /\ [](\A k \in DOMAIN seen : k[2] # UNKNOWN => seen[k].processed)
    /\ [][ /\ last'.op = "add_detection" =>
                \A k \in DOMAIN seen' \ DOMAIN seen : ~ seen'[k].processed
           /\ \A k \in DOMAIN seen \cap DOMAIN seen' :
                (~ seen[k].processed /\ seen'[k].processed) =>
                    (last'.op = "mark_processed" /\ last'.key = k[1]) ]_vars

\* a detection was merged into a labelled entry while another hero's detection
\* stays unprocessed
C27_MergedAndPending ==
    /\ last.op = "mark_processed"
    /\ \E k \in DOMAIN seen : k[1] = last.key /\ k[2] # UNKNOWN /\ seen[k].processed
    /\ <<last.key, UNKNOWN>> \notin DOMAIN seen
    /\ \E k \in DOMAIN seen : k[1] # last.key /\ k[2] = UNKNOWN /\ ~ seen[k].processed

----------------------------------------------------------------------------
(* C28, under SpecKeys *)

\* C28: between two resets max_y_processed never decreases and min_y_seen
\* never increases, so that needs_scroll(), once true, stays true until reset.
C28_ScrollBoundsMonotone ==
    [][ last'.op # "reset" =>
            /\ max_y_processed' >= max_y_processed
            /\ min_y_seen' <= min_y_seen
            /\ needs_scroll => needs_scroll' ]_vars

\* needs_scroll() was true before the latest call, a mark_processed at the
\* lowest y, and is true after it
C28_StillNeedsScroll ==
    /\ needs_scroll
    /\ last.op = "mark_processed"
    /\ markedAt[last.key].y = min_y_seen
    /\ max_y_processed > markedAt[last.key].y
    /\ calls = MaxKeyCalls

----------------------------------------------------------------------------
(* Vocabulary of the session's claims *)

\* the phases of a session: before it, searching for the start marker (the
\* initial wait included), scanning, terminal
Phase(pc) ==
    CASE pc = "idle" -> 0
      [] pc \in {"wait", "reset", "search"} -> 1
      [] pc \in {"capture", "cards", "settle"} -> 2
      [] OTHER -> 3

\* no card was detected, clicked or marked processed in this session
NothingScanned ==
    /\ screen = NoScreen
    /\ todo = <<>>
    /\ processed_screens = 0
    /\ seen = <<>>
    /\ markedTags = {}
    /\ \A c \in Cards : clicks[c] = 0
    /\ captain_clicks = <<>>
    /\ processed_positions = {}
    /\ processed_captain_names = {}

----------------------------------------------------------------------------
(* C21, under SpecScan *)

\* C21 as claimed: once the stop signal has cleared the running flag, the
\* driver starts no click on a further card, records nothing beyond the
\* sighting in progress and leaves the scan loop; during the multi-second
\* wait of a sighting the flag is seen within a second, the rest of the wait
\* not being slept.
C21_StopObservedEverywhere ==
    [][ ~ running =>
            /\ clicks' = clicks
            /\ captain_clicks' = captain_clicks
            /\ scan_pc = "cards" =>
                   /\ scan_pc' \in {"capture", "returned"}
                   /\ UNCHANGED <<trackerVars, processed_positions,
                                  processed_captain_names>>
            /\ scan_pc = "capture" => scan_pc' = "returned"
            /\ scan_pc = "settle" => now' - now <= WAIT_STEP_S ]_vars

----------------------------------------------------------------------------
(* C22, under SpecSession *)

\* C22: when capture_process has ended, by whichever path, the elapsed
\* capture time is recorded, running is false and capture_finished has been
\* scheduled once; before that it has not been scheduled.
C22_FinalizedOnEveryExit ==
    /\ finished_scheduled = (IF ScanOver THEN 1 ELSE 0)
    /\ ScanOver =>
           /\ ~ running
           /\ ended_by # "none"
           /\ capture_elapsed_time = format_elapsed(now - start_time)
    /\ ~ ScanOver => capture_elapsed_time = NoElapsed

\* the session was cancelled during the initial wait, a second into it
C22_CancelledWhileWaiting ==
    /\ ended_by = "wait_cancelled"
    /\ scan_pc = "returned"
    /\ capture_elapsed_time = <<0, 1>>
    /\ finished_scheduled = 1

----------------------------------------------------------------------------
(* C23, under SpecScan *)

\* C23: a session goes from searching for the start marker to scanning to
\* terminal and never back; it scans only after the marker was found, no card
\* being detected, clicked or marked processed before; and a marker search
\* that is cancelled or runs out of its scrolls ends the session, nothing
\* scanned.
C23_SearchThenScanThenTerminal ==
    /\ [](~ marker_found => (Phase(scan_pc) # 2 /\ NothingScanned))
    /\ [](ended_by \in {"search_cancelled", "no_marker"} =>
              (~ marker_found /\ scan_pc = "returned"))
    /\ [][ /\ Phase(scan_pc') >= Phase(scan_pc)
           /\ (Phase(scan_pc) # 2 /\ Phase(scan_pc') = 2) =>
                  (scan_pc = "search" /\ marker_found') ]_vars

\* the marker search ran out of its scrolls and the session ended
C23_MarkerNeverFound ==
    /\ ended_by = "no_marker"
    /\ scan_pc = "returned"
    /\ ~ marker_found
    /\ NothingScanned

----------------------------------------------------------------------------
(* C29, under SpecSession *)

\* C29: within one session a forbidden captain's name is clicked at most
\* once; once the name is recorded, no step clicks a card of that name,
\* whatever its position and frame.
C29_ForbiddenCaptainClickedOnce ==
    /\ [](\A n \in DOMAIN captain_clicks : captain_clicks[n] <= 1)
    /\ [][ \A n \in processed_captain_names :
               /\ n \in DOMAIN captain_clicks
               /\ captain_clicks' = captain_clicks
               /\ (scan_pc = "cards" /\ todo # <<>> /\ todo' = Tail(todo)
                     /\ str_lower(Head(todo).name) = n)
                  => (now' = now /\ processed_positions' = processed_positions) ]_vars

\* a frame shows the recorded captain at a position not handled before, and
\* its sighting was skipped
C29_SkippedAtNewPosition ==
    /\ scan_pc = "cards"
    /\ todo = <<>>
    /\ running
    /\ processed_screens >= 1
    /\ \E d \in screen.cards :
          /\ str_lower(d.name) \in processed_captain_names
          /\ captain_clicks[str_lower(d.name)] = 1
          /\ position_key(d) \notin processed_positions
    /\ frame_new = 0

----------------------------------------------------------------------------
(* C24, under SpecMatcher *)

\* the indices _non_max_suppression kept
Kept == { survivors[i] : i \in 1..Len(survivors) }

\* the boxes of candidates i and j have an IoU above the threshold
IoUAbove(i, j) ==
    100 * intersection(box(candidates[i]), box(candidates[j]))
        > OVERLAP_THRESHOLD_PCT * union_area(box(candidates[i]), box(candidates[j]))

\* every candidate whose box overlaps no kept box survives, and no two
\* survivors overlap
NmsKeepsApart ==
    /\ Len(survivors) = Cardinality(Kept)
    /\ Kept \subseteq 1..Len(candidates)
    /\ \A i \in 1..Len(candidates) :
          (\A k \in Kept \ {i} : ~ IoUAbove(k, i)) => i \in Kept
    /\ \A i, j \in Kept : i # j => ~ IoUAbove(i, j)

\* C24 as claimed: of two candidates whose boxes have an IoU above 0.5 the
\* higher-confidence one survives and the other does not; every candidate
\* whose box overlaps no kept box survives; no two survivors overlap.
C24_HigherOfEachPairSurvives ==
    nms_pc = "matched" =>
        /\ \A i, j \in 1..Len(candidates) :
              (IoUAbove(i, j) /\ candidates[i].confidence > candidates[j].confidence)
                  => (i \in Kept /\ j \notin Kept)
        /\ NmsKeepsApart

\* C24 as amended: of two candidates whose boxes have an IoU above 0.5 at most
\* one survives, and the lower-confidence one survives only when the
\* higher-confidence one was itself suppressed by a kept candidate; every
\* candidate whose box overlaps no kept box survives; no two survivors overlap.
C24_GreedySuppression ==
    nms_pc = "matched" =>
        /\ \A i, j \in 1..Len(candidates) :
              (IoUAbove(i, j) /\ candidates[i].confidence > candidates[j].confidence)
                  => /\ ~ (i \in Kept /\ j \in Kept)
                     /\ j \in Kept =>
                            \E k \in Kept :
                                /\ IoUAbove(k, i)
                                /\ candidates[k].confidence >= candidates[i].confidence
        /\ NmsKeepsApart

\* three candidates in a chain: the middle one is suppressed by the best, and
\* the weakest, which overlaps the middle one alone, survives
C24_ChainOfThree ==
    /\ nms_pc = "matched"
    /\ Len(candidates) = 3
    /\ Cardinality(Kept) = 2
    /\ \E i, j \in 1..3 :
          /\ IoUAbove(i, j)
          /\ candidates[i].confidence > candidates[j].confidence
          /\ i \notin Kept
          /\ j \in Kept

----------------------------------------------------------------------------
(* C25, under SpecDetect *)

\* the detections that passed the confidence filter, heroes and captains
AllFound ==
    { FoundCard(candidates.heroes[i], "hero") : i \in 1..Len(candidates.heroes) }
        \cup { FoundCard(candidates.captains[i], "captain") :
                   i \in 1..Len(candidates.captains) }

PassedFilter == { f \in AllFound : f.confidence >= CONFIDENCE_FILTER }

AllCards == { survivors[i] : i \in 1..Len(survivors) }

\* closer than the pixel threshold
Near(a, b) ==
    (a.x - b.x) * (a.x - b.x) + (a.y - b.y) * (a.y - b.y) < NMS_DISTANCE * NMS_DISTANCE

\* C25 as claimed: the pass runs over the combined hero+captain set, so that
\* no two detections of one name survive closer than the threshold; a
\* detection is removed only when a kept detection of its name with at least
\* its confidence lies closer than the threshold; the highest-confidence
\* member of a group of near duplicates is kept.
C25_CombinedDistanceNms ==
    nms_pc = "detected" =>
        /\ AllCards \subseteq PassedFilter
        /\ \A i, j \in 1..Len(survivors) :
              (i # j /\ survivors[i].name = survivors[j].name)
                  => ~ Near(survivors[i], survivors[j])
        /\ \A f \in PassedFilter \ AllCards :
              \E k \in AllCards :
                  /\ k.name = f.name
                  /\ k.confidence >= f.confidence
                  /\ Near(k, f)
        /\ \A f \in PassedFilter :
              (\A g \in PassedFilter \ {f} :
                   (g.name = f.name /\ Near(g, f)) => g.confidence < f.confidence)
                  => f \in AllCards

\* C25 as amended: the pass runs over the hero detections and over the
\* captain detections separately, so that no two detections of one name and
\* one card type survive closer than the threshold; a detection is removed
\* only when a kept detection of its name and card type with at least its
\* confidence lies closer than the threshold; the highest-confidence member
\* of a group of near duplicates is kept.
C25_DistanceNmsPerCardType ==
    nms_pc = "detected" =>
        /\ AllCards \subseteq PassedFilter
        /\ \A i, j \in 1..Len(survivors) :
              (i # j /\ survivors[i].name = survivors[j].name
                     /\ survivors[i].card_type = survivors[j].card_type)
                  => ~ Near(survivors[i], survivors[j])
        /\ \A f \in PassedFilter \ AllCards :
              \E k \in AllCards :
                  /\ k.name = f.name
                  /\ k.card_type = f.card_type
                  /\ k.confidence >= f.confidence
                  /\ Near(k, f)
        /\ \A f \in PassedFilter :
              (\A g \in PassedFilter \ {f} :
                   (g.name = f.name /\ Near(g, f)) => g.confidence < f.confidence)
                  => f \in AllCards

\* a hero's duplicate was removed, while a captain of the same name, as close
\* to the kept hero, survives
C25_DuplicateHeroRemoved ==
    /\ nms_pc = "detected"
    /\ \E f \in PassedFilter \ AllCards : f.card_type = "hero"
    /\ \E h, c \in AllCards :
          /\ h.card_type = "hero" /\ c.card_type = "captain"
          /\ h.name = c.name /\ Near(h, c)

----------------------------------------------------------------------------
(* C30, under SpecScroll *)

\* a pass of the loop captured an image
Captured == sc_pc = "loop" /\ position' = position + 1

\* the pass captured an image whose hash was not known
CapturedNew ==
    /\ Captured
    /\ content_hashes' # content_hashes

\* the call began with a capture whose hash was not known
BeganWithNew ==
    /\ sc_pc \in { "idle", "returned" }
    /\ sc_pc' = "loop"
    /\ content_hashes' # content_hashes

\* the call returns only after max_retries captures in a row with a known
\* hash; a capture of the loop with a new hash sets the counter to 0, is
\* appended to the result and is handed to the callback once, and no capture
\* with a known hash is; the returned screenshots have pairwise distinct hashes
ScrollLoopContract ==
    /\ [](sc_pc = "returned" => seen_run = MAX_RETRIES)
    /\ [][CapturedNew =>
              /\ no_change_count' = 0
              /\ Len(screenshots') = Len(screenshots) + 1
              /\ Len(callback_calls') = Len(callback_calls) + 1
              /\ callback_calls'[Len(callback_calls')][1] = screenshots'[Len(screenshots')]
         ]_vars
    /\ [][(Captured /\ ~ CapturedNew) =>
              /\ no_change_count' = no_change_count + 1
              /\ UNCHANGED <<screenshots, callback_calls>>
         ]_vars
    /\ [](\A i, j \in 1..Len(screenshots) :
              i # j => compute_content_hash(screenshots[i])
                           # compute_content_hash(screenshots[j]))

\* C30 as claimed: the contract of the loop, and the initial capture, when its
\* hash is new, is appended and handed to the callback once like every other
\* capture with a new hash.
C30_EveryNewCaptureCalledBack ==
    /\ ScrollLoopContract
    /\ [][BeganWithNew =>
              /\ Len(screenshots') = 1
              /\ Len(callback_calls') = 1
         ]_vars

\* C30 as amended: the contract of the loop, and the initial capture is
\* appended without a callback.
C30_NewCapturesAfterInitialCalledBack ==
    /\ ScrollLoopContract
    /\ [][BeganWithNew =>
              /\ Len(screenshots') = 1
              /\ callback_calls' = <<>>
         ]_vars

\* a call returned three screenshots, all the hashes the controller knows,
\* after two callbacks
C30_ReturnedThreeScreens ==
    /\ sc_pc = "returned"
    /\ Len(screenshots) = 3
    /\ Len(callback_calls) = 2
    /\ Cardinality(content_hashes) = 3
    /\ position = 1 + 2 + MAX_RETRIES

====
